---------------------------- MODULE Spec2Model ----------------------------
(***************************************************************************)
(* Model of src/PRV/prv.py: the windowing engine chunckData, the five     *)
(* reducers rmssd, sdnn, nn50, pnn50, hrMaxMin, and the five entry points *)
(* getRMSSD .. getSDNN that bind a reducer to its window size.            *)
(*                                                                         *)
(* Numbers.  Timestamps and window sizes are whole seconds.  Intervals    *)
(* (IBI) are held in whole milliseconds, so the code's 0.05 s threshold   *)
(* is 50 and the heart rate 60 / ibi is 60000 / ibi.  Values a reducer    *)
(* returns are exact: a rational num/den in lowest terms, with root=TRUE  *)
(* when the value is the square root of that rational (np.sqrt, np.std).  *)
(* Floating-point rounding is not modelled.                               *)
(*                                                                         *)
(* Indices t and start_index are 0-based as in the code; At(s, i) reads   *)
(* the code's s[i].                                                        *)
(***************************************************************************)
EXTENDS Integers, Sequences, FiniteSets

VARIABLES
    time,         \* chunckData argument: the timestamps
    data,         \* chunckData argument / reducer argument: the intervals
    window_size,  \* chunckData argument
    operation,    \* chunckData argument: the reducer, by name
    t,            \* the for loop's scan position
    start_index,  \* prv.py:78
    values,       \* prv.py:79
    start_time,   \* prv.py:80
    end_time,     \* prv.py:81
    pc,           \* "call" | "scan" | "done" | "raised" | "direct" | "returned"
    entry,        \* the function the caller invoked
    calls,        \* the slices handed to operation(...) so far, in order
    windows,      \* the windows closed so far: [from |-> start_index, to |-> t]
    ret           \* outcome of a direct reducer call

vars == <<time, data, window_size, operation, t, start_index, values,
          start_time, end_time, pc, entry, calls, windows, ret>>

----------------------------------------------------------------------------
(* Bounds of the model *)

MaxLen == 5        \* longest series given to chunckData directly
MaxGap == 2        \* largest step between consecutive timestamps
MaxWindow == 2     \* largest window size given to chunckData directly
MaxIbiLen == 4     \* longest sequence given to a reducer directly
MaxN == 130        \* last timestamp of the regular series 0..N

FirstTimes == {0, 3}                   \* timestamps[0]
ChunkIbiVals == {800, 900}             \* intervals (ms) of a series
IbiVals == {50, 800, 850, 900, 2000}   \* intervals (ms) of a direct reducer call
Reducers == {"rmssd", "sdnn", "nn50", "pnn50", "hrMaxMin"}

----------------------------------------------------------------------------
(* Python and numpy arithmetic, exact *)

Abs(x) == IF x < 0 THEN -x ELSE x

RECURSIVE GCD(_, _)
GCD(a, b) == IF b = 0 THEN a ELSE GCD(b, a % b)

\* the number n/d (d > 0), in lowest terms
Rat(n, d) ==
    LET g == GCD(Abs(n), d)
    IN  [num |-> n \div g, den |-> d \div g, root |-> FALSE]

Zero == Rat(0, 1)

NaN == [num |-> 0, den |-> 0, root |-> FALSE]

RatLess(a, b) == a.num * b.den < b.num * a.den

RatSub(a, b) == Rat(a.num * b.den - b.num * a.den, a.den * b.den)

\* np.sqrt of a non-negative rational
Sqrt(r) == IF r.num = 0 THEN r ELSE [r EXCEPT !.root = TRUE]

\* a call that returns v / a call that raises e
Ok(v) == [err |-> "none", val |-> v]

Raise(e) == [err |-> e, val |-> NaN]

\* s[i] with a 0-based index in range
At(s, i) == s[i + 1]

\* s[lo:hi] as Python and numpy slice: a negative bound counts from the end,
\* bounds are clipped to the sequence, an inverted range is empty
PySlice(s, lo, hi) ==
    LET n == Len(s)
        norm(i) == IF i < 0 THEN (IF i + n < 0 THEN 0 ELSE i + n)
                   ELSE (IF i > n THEN n ELSE i)
    IN  SubSeq(s, norm(lo) + 1, norm(hi))

----------------------------------------------------------------------------
(* The reducers, prv.py:95-138 *)

NN50Threshold == 50    \* 0.05 s
HrMaxInit == 0
HrMinInit == 1000

\* The loops below add integers, so the order of the additions does not
\* change the sum: each is evaluated by halves of its index range lo..hi.

\* what the loop of rmssd adds to sum for i = lo .. hi
RECURSIVE rmssdSum(_, _, _)
rmssdSum(ibi, lo, hi) ==
    IF lo > hi THEN 0
    ELSE IF lo = hi
         THEN (At(ibi, lo) - At(ibi, lo - 1)) * (At(ibi, lo) - At(ibi, lo - 1))
         ELSE rmssdSum(ibi, lo, (lo + hi) \div 2)
              + rmssdSum(ibi, (lo + hi) \div 2 + 1, hi)

rmssd(ibi) ==
    LET sum == rmssdSum(ibi, 1, Len(ibi) - 1)
    IN  IF sum > 0 THEN Ok(Sqrt(Rat(sum, Len(ibi) - 1))) ELSE Ok(Zero)

\* s[lo] + .. + s[hi], 1-based
RECURSIVE SeqSum(_, _, _)
SeqSum(s, lo, hi) ==
    IF lo > hi THEN 0
    ELSE IF lo = hi THEN s[lo]
         ELSE SeqSum(s, lo, (lo + hi) \div 2) + SeqSum(s, (lo + hi) \div 2 + 1, hi)

\* np.std: sqrt(mean(abs(x - mean(x)) ** 2)); with S the sum and n the length,
\* x[i] - S/n = (n*x[i] - S)/n, so the mean of the squares is
\* sum((n*x[i] - S)^2) / n^3.  np.std of an empty array is nan.
sdnn(ibi) ==
    LET n == Len(ibi)
        S == SeqSum(ibi, 1, n)
        dev2 == [i \in 1..n |-> (n * ibi[i] - S) * (n * ibi[i] - S)]
    IN  IF n = 0 THEN Ok(NaN)
        ELSE Ok(Sqrt(Rat(SeqSum(dev2, 1, n), n * n * n)))

\* the test of prv.py:120 on the pair (ibi[i-1], ibi[i])
NN50Pair(prev, cur) == cur - prev > NN50Threshold

\* what the loop of nn50 adds to nn50 for i = lo .. hi
RECURSIVE nn50Count(_, _, _)
nn50Count(ibi, lo, hi) ==
    IF lo > hi THEN 0
    ELSE IF lo = hi
         THEN (IF NN50Pair(At(ibi, lo - 1), At(ibi, lo)) THEN 1 ELSE 0)
         ELSE nn50Count(ibi, lo, (lo + hi) \div 2)
              + nn50Count(ibi, (lo + hi) \div 2 + 1, hi)

nn50(ibi) == Ok(Rat(nn50Count(ibi, 1, Len(ibi) - 1), 1))

\* int / int: true division, ZeroDivisionError on a zero divisor
pnn50(ibi) ==
    IF Len(ibi) = 0 THEN Raise("ZeroDivisionError")
    ELSE Ok(Rat(nn50(ibi).val.num * 100, Len(ibi)))

\* one pass of the loop body of hrMaxMin, with two `if` in sequence;
\* as written, but the second test an `elif`
HrStepElif(acc, hr) ==
    IF RatLess(acc.hrmax, hr) THEN [acc EXCEPT !.hrmax = hr]
    ELSE IF RatLess(hr, acc.hrmin) THEN [acc EXCEPT !.hrmin = hr]
    ELSE acc

HrStep(acc, hr) ==
    [hrmax |-> IF RatLess(acc.hrmax, hr) THEN hr ELSE acc.hrmax,
     hrmin |-> IF RatLess(hr, acc.hrmin) THEN hr ELSE acc.hrmin]

\* (hrmax, hrmin) after the loop has run for i = lo .. hi in that order,
\* starting from acc: first lo .. mid, then mid+1 .. hi from that result
\* (the singleton set has the first half evaluated before the second starts)
RECURSIVE hrLoop(_, _, _, _)
hrLoop(ibi, lo, hi, acc) ==
    IF lo > hi THEN acc
    ELSE IF lo = hi THEN HrStep(acc, Rat(60 * 1000, At(ibi, lo)))
         ELSE LET mid == (lo + hi) \div 2
              IN  CHOOSE r \in {hrLoop(ibi, mid + 1, hi, a) :
                                   a \in {hrLoop(ibi, lo, mid, acc)}} : TRUE

hrMaxMin(ibi) ==
    LET acc == hrLoop(ibi, 0, Len(ibi) - 1,
                      [hrmax |-> Rat(HrMaxInit, 1), hrmin |-> Rat(HrMinInit, 1)])
    IN  Ok(RatSub(acc.hrmax, acc.hrmin))

\* operation(slice)
Apply(op, ibi) ==
    CASE op = "rmssd" -> rmssd(ibi)
      [] op = "sdnn" -> sdnn(ibi)
      [] op = "nn50" -> nn50(ibi)
      [] op = "pnn50" -> pnn50(ibi)
      [] op = "hrMaxMin" -> hrMaxMin(ibi)

----------------------------------------------------------------------------
(* chunckData, prv.py:65-93 *)

\* prv.py:85, as written but with > for >=
WindowClosesStrict(tt) == At(time, tt) - At(time, start_index) > window_size

\* prv.py:85, as written but without subtracting the window's first timestamp
WindowClosesAbsolute(tt) == At(time, tt) >= window_size

\* prv.py:85
WindowCloses(tt) == At(time, tt) - At(time, start_index) >= window_size

\* prv.py:86-87, as written but with the slice up to t
WindowSliceToT(tt) == PySlice(data, start_index, tt)

\* prv.py:86-87: data[start_index : t-1]
WindowSlice(tt) == PySlice(data, start_index, tt - 1)

\* prv.py:91, as written but inside the inner if
NextStartIfEmitted(tt) == IF Len(WindowSlice(tt)) > 0 THEN tt ELSE start_index

\* prv.py:91
NextStart(tt) == tt

\* prv.py:90, as written but with the sample before t
WindowEndPrev(tt) == At(time, tt - 1)

\* prv.py:90
WindowEnd(tt) == At(time, tt)

\* one iteration of the for loop, prv.py:82-91
ScanStep ==
    /\ pc = "scan"
    /\ t < Len(time)
    /\ IF WindowCloses(t)
       THEN /\ IF Len(WindowSlice(t)) > 0
               THEN LET _operation == Apply(operation, WindowSlice(t))
                    IN  /\ calls' = Append(calls, WindowSlice(t))
                        /\ IF _operation.err = "none"
                           THEN /\ values' = Append(values, _operation.val)
                                /\ start_time' = Append(start_time, At(time, start_index))
                                /\ end_time' = Append(end_time, WindowEnd(t))
                                /\ pc' = pc
                           ELSE /\ pc' = "raised"
                                /\ UNCHANGED <<values, start_time, end_time>>
               ELSE UNCHANGED <<values, start_time, end_time, calls, pc>>
            /\ start_index' = NextStart(t)
            /\ windows' = Append(windows, [from |-> start_index, to |-> t])
       ELSE UNCHANGED <<values, start_time, end_time, calls, pc, start_index, windows>>
    /\ t' = t + 1
    /\ UNCHANGED <<time, data, window_size, operation, entry, ret>>

\* the loop is exhausted: prv.py:93
Return ==
    /\ pc = "scan"
    /\ t = Len(time)
    /\ pc' = "done"
    /\ UNCHANGED <<time, data, window_size, operation, t, start_index, values,
                   start_time, end_time, entry, calls, windows, ret>>

\* the non-decreasing timestamp sequences of length n
RECURSIVE TimeSeqs(_)
TimeSeqs(n) ==
    IF n = 0 THEN {<<>>}
    ELSE IF n = 1 THEN {<<f>> : f \in FirstTimes}
    ELSE {Append(s, s[n - 1] + g) : s \in TimeSeqs(n - 1), g \in 0..MaxGap}

\* interval sequences of length n: a, b, a, b, ... (constant when a = b)
IbiSeqs(n) ==
    {[i \in 1..n |-> IF i % 2 = 1 THEN a ELSE b] : a \in ChunkIbiVals, b \in ChunkIbiVals}

\* state on entry to chunckData, prv.py:78-81
Entered(tm, dt, w, op) ==
    /\ time = tm
    /\ data = dt
    /\ window_size = w
    /\ operation = op
    /\ t = 0
    /\ start_index = 0
    /\ values = <<>>
    /\ start_time = <<>>
    /\ end_time = <<>>
    /\ pc = "scan"
    /\ entry = "chunckData"
    /\ calls = <<>>
    /\ windows = <<>>
    /\ ret = Ok(NaN)

\* chunckData called with index-aligned sequences and a positive window size
Init ==
    \E n \in 0..MaxLen :
        \E tm \in TimeSeqs(n), dt \in IbiSeqs(n), w \in 1..MaxWindow, op \in Reducers :
            Entered(tm, dt, w, op)

Next == ScanStep \/ Return

Spec == Init /\ [][Next]_vars

----------------------------------------------------------------------------
(* chunckData called with malformed arguments *)

\* the arguments the contract of chunckData admits
ValidInput == Len(time) = Len(data) /\ window_size > 0

\* chunckData called with sequences of different lengths, or with a window
\* size that is zero or negative
InitInvalid ==
    \E n \in 0..MaxLen, m \in 0..MaxLen, w \in -1..MaxWindow :
        /\ n # m \/ w <= 0
        /\ m \in {n - 1, n, n + 1}
        /\ \E tm \in TimeSeqs(n), dt \in IbiSeqs(m), op \in Reducers :
               Entered(tm, dt, w, op)

SpecInvalid == InitInvalid /\ [][Next]_vars

----------------------------------------------------------------------------
(* The entry points, prv.py:50-63, on the regular series 0, 1, .., N *)

RmssdWindow == 60
HrMaxMinWindow == 120
NN50Window == 120
PNN50Window == 120
SdnnWindow == 60

\* name(time, data) calls chunckData(time, data, w, op)
CallChunck(name, w, op) ==
    /\ pc = "call"
    /\ entry' = name
    /\ window_size' = w
    /\ operation' = op
    /\ pc' = "scan"
    /\ UNCHANGED <<time, data, t, start_index, values, start_time, end_time,
                   calls, windows, ret>>

getRMSSD == CallChunck("getRMSSD", RmssdWindow, "rmssd")

getHRMaxMin == CallChunck("getHRMaxMin", HrMaxMinWindow, "hrMaxMin")

getNN50 == CallChunck("getNN50", NN50Window, "nn50")

getPNN50 == CallChunck("getPNN50", PNN50Window, "pnn50")

getSDNN == CallChunck("getSDNN", SdnnWindow, "sdnn")

\* the caller holds timestamps 0..N and one interval value for every point
InitFacade ==
    \E N \in 0..MaxN, c \in ChunkIbiVals \cup {1000} :
        /\ time = [i \in 1..(N + 1) |-> i - 1]
        /\ data = [i \in 1..(N + 1) |-> c]
        /\ window_size = 0
        /\ operation = "unbound"
        /\ t = 0
        /\ start_index = 0
        /\ values = <<>>
        /\ start_time = <<>>
        /\ end_time = <<>>
        /\ pc = "call"
        /\ entry = "caller"
        /\ calls = <<>>
        /\ windows = <<>>
        /\ ret = Ok(NaN)

NextFacade ==
    getRMSSD \/ getHRMaxMin \/ getNN50 \/ getPNN50 \/ getSDNN \/ ScanStep \/ Return

SpecFacade == InitFacade /\ [][NextFacade]_vars

----------------------------------------------------------------------------
(* A reducer invoked directly *)

\* all interval sequences of length n over IbiVals
AllIbiSeqs(n) == [1..n -> IbiVals]

InitReducer ==
    \E n \in 0..MaxIbiLen :
        \E ibi \in AllIbiSeqs(n), op \in Reducers :
            /\ data = ibi
            /\ operation = op
            /\ time = <<>>
            /\ window_size = 0
            /\ t = 0
            /\ start_index = 0
            /\ values = <<>>
            /\ start_time = <<>>
            /\ end_time = <<>>
            /\ pc = "direct"
            /\ entry = op
            /\ calls = <<>>
            /\ windows = <<>>
            /\ ret = Ok(NaN)

\* operation(data), called by a client and not by chunckData
Invoke ==
    /\ pc = "direct"
    /\ ret' = Apply(operation, data)
    /\ calls' = Append(calls, data)
    /\ pc' = "returned"
    /\ UNCHANGED <<time, data, window_size, operation, t, start_index, values,
                   start_time, end_time, entry, windows>>

NextReducer == Invoke

SpecReducer == InitReducer /\ [][NextReducer]_vars

----------------------------------------------------------------------------
(* Properties of chunckData on valid input (Spec) *)

\* the rows of the DataFrame built at prv.py:93
DataFrame ==
    [i \in 1..Len(values) |->
        [startTime |-> start_time[i], endTime |-> end_time[i], value |-> values[i]]]

\* C1: on non-decreasing timestamps, aligned intervals and a positive window
\* size, every record spans at least window_size, consecutive records do not
\* overlap, startTime is strictly increasing, and every startTime is an input
\* timestamp.
C1_WindowsWellFormed ==
    ValidInput =>
        /\ Len(start_time) = Len(values)
        /\ Len(end_time) = Len(values)
        /\ \A i \in 1..Len(values) :
              /\ DataFrame[i].endTime - DataFrame[i].startTime >= window_size
              /\ \E j \in 1..Len(time) : time[j] = DataFrame[i].startTime
              /\ i > 1 => /\ DataFrame[i - 1].endTime <= DataFrame[i].startTime
                          /\ DataFrame[i - 1].startTime < DataFrame[i].startTime

\* two records were returned, the first of them longer than window_size
C1_Witness ==
    /\ pc = "done"
    /\ ValidInput
    /\ Len(values) = 2
    /\ end_time[1] - start_time[1] > window_size

\* C2: a series whose total duration is below the window size, and the
\* series with no sample, give no record: no reducer call, no partial window.
C2_ShortSeriesEmpty ==
    (/\ ValidInput
     /\ Len(time) = 0 \/ time[Len(time)] - time[1] < window_size)
    => /\ values = <<>>
       /\ start_time = <<>>
       /\ end_time = <<>>
       /\ calls = <<>>

\* a series of three samples or more, shorter than the window, was scanned
C2_Witness ==
    /\ pc = "done"
    /\ ValidInput
    /\ Len(time) >= 3
    /\ time[Len(time)] - time[1] < window_size
    /\ time[Len(time)] > time[1]

\* what C9 says of one scan position: the intervals at indices
\* start_index .. t-2 (0-based), i.e. t - 1 - start_index of them
C9_Slice ==
    [k \in 1..(IF t - 1 > start_index THEN t - 1 - start_index ELSE 0) |->
        data[start_index + k]]

C9_Position ==
    IF time[t + 1] - time[start_index + 1] >= window_size
    THEN /\ start_index' = t
         /\ IF C9_Slice # <<>>
            THEN /\ calls' = Append(calls, C9_Slice)
                 /\ values' = Append(values, Apply(operation, C9_Slice).val)
                 /\ start_time' = Append(start_time, time[start_index + 1])
                 /\ end_time' = Append(end_time, time[t + 1])
            ELSE UNCHANGED <<calls, values, start_time, end_time>>
    ELSE UNCHANGED <<start_index, calls, values, start_time, end_time>>

\* C9: at a scan position t with timestamps[t] - timestamps[start_index] >=
\* window_size (equality included) the reducer gets exactly the intervals at
\* start_index .. t-2, a record (timestamps[start_index], timestamps[t],
\* reduce(slice)) is emitted iff that slice is non-empty, and start_index
\* becomes t either way; at any other position nothing is emitted and
\* start_index stays.  The reducer is never given an empty sequence.
C9_ScanPosition ==
    /\ [](ValidInput => \A i \in 1..Len(calls) : calls[i] # <<>>)
    /\ [][(pc = "scan" /\ t < Len(time) /\ ValidInput) => C9_Position]_vars

\* a window closed on a tie and gave a record, another closed without one
C9_Witness ==
    /\ ValidInput
    /\ \E i \in 1..Len(windows) :
          /\ time[windows[i].to + 1] - time[windows[i].from + 1] = window_size
          /\ windows[i].to - windows[i].from >= 2
    /\ \E i \in 1..Len(windows) : windows[i].to - windows[i].from < 2
    /\ Len(values) >= 1

\* C10 as stated: the first record starts at the first timestamp and every
\* record starts where the record before it ended.
C10_RecordsContiguous ==
    (ValidInput /\ pc = "done") =>
        /\ values # <<>> => start_time[1] = time[1]
        /\ \A i \in 2..Len(values) : start_time[i] = end_time[i - 1]

\* the closed windows whose slice data[from : to-1] is non-empty
C10_Emitting == SelectSeq(windows, LAMBDA w : w.to - w.from >= 2)

\* C10 amended: the closed windows are contiguous (the first starts at index
\* 0, each later one where the one before closed), and there is one record
\* per closed window whose trimmed slice is non-empty; a window closing with
\* an empty slice gives no record, so records need not abut, but a later
\* startTime is never before an earlier endTime.
C10_WindowsContiguous ==
    ValidInput =>
        /\ \A k \in 1..Len(windows) :
              windows[k].from = (IF k = 1 THEN 0 ELSE windows[k - 1].to)
        /\ start_index = (IF windows = <<>> THEN 0 ELSE windows[Len(windows)].to)
        /\ Len(values) = Len(C10_Emitting)
        /\ \A i \in 1..Len(values) :
              /\ start_time[i] = time[C10_Emitting[i].from + 1]
              /\ end_time[i] = time[C10_Emitting[i].to + 1]
              /\ i > 1 => end_time[i - 1] <= start_time[i]

\* the first window closed without a record, a later one gave a record
C10_Witness ==
    /\ pc = "done"
    /\ ValidInput
    /\ Len(values) >= 1
    /\ Len(windows) > Len(values)
    /\ start_time[1] # time[1]

----------------------------------------------------------------------------
(* Malformed arguments (SpecInvalid) *)

\* C6: with sequences of different lengths, or a window size <= 0,
\* chunckData raises InvalidInput before any windowing, so on such arguments
\* the reducer is called on no slice and no record is ever built.
C6_InvalidInputRejected ==
    ~ValidInput =>
        /\ calls = <<>>
        /\ values = <<>>
        /\ start_time = <<>>
        /\ end_time = <<>>

----------------------------------------------------------------------------
(* The entry points on the regular series (SpecFacade) *)

----------------------------------------------------------------------------
(* The reducers called directly (SpecReducer) *)

\* the adjacent pairs of s that differ by more than 0.05 s either way
BothWaysPairs(s) ==
    {i \in 2..Len(s) : Abs(s[i] - s[i - 1]) > 50}

\* C3: nn50 counts the adjacent pairs differing by more than 0.05 s, whether
\* the interval rises or falls; pnn50 is 100 times that count over n.
C3_NN50CountsBothWays ==
    /\ (pc = "returned" /\ operation = "nn50")
           => ret = Ok(Rat(Cardinality(BothWaysPairs(data)), 1))
    /\ (pc = "returned" /\ operation = "pnn50" /\ data # <<>>)
           => ret = Ok(Rat(100 * Cardinality(BothWaysPairs(data)), Len(data)))

\* the heart rate 60 / x of the interval at position i
HRate(s, i) == Rat(60 * 1000, s[i])

\* max(60/x) - min(60/x) over s
HRange(s) ==
    LET hi == CHOOSE i \in 1..Len(s) : \A j \in 1..Len(s) : ~RatLess(HRate(s, i), HRate(s, j))
        lo == CHOOSE i \in 1..Len(s) : \A j \in 1..Len(s) : ~RatLess(HRate(s, j), HRate(s, i))
    IN  RatSub(HRate(s, hi), HRate(s, lo))

\* C4: on a non-empty sequence of positive intervals hrMaxMin returns
\* max(60/x) - min(60/x), so 0 on one sample and on a constant sequence,
\* also when 60/x is above 1000.
C4_HrMaxMinIsRange ==
    (pc = "returned" /\ operation = "hrMaxMin" /\ data # <<>>)
        => ret = Ok(HRange(data))

\* the reorderings of s
Reorderings(s) ==
    {[i \in 1..Len(s) |-> s[f[i]]] :
        f \in {g \in [1..Len(s) -> 1..Len(s)] :
                  \A i, j \in 1..Len(s) : g[i] = g[j] => i = j}}

\* C5 as stated: sdnn, pnn50 and hrMaxMin return the same value on every
\* reordering of a non-empty sequence.
C5_ThreeOrderInvariant ==
    (pc = "returned" /\ operation \in {"sdnn", "pnn50", "hrMaxMin"} /\ data # <<>>)
        => \A p \in Reorderings(data) : Apply(operation, p) = ret

\* C5 amended: sdnn and hrMaxMin return the same value on every reordering
\* of a non-empty sequence (pnn50 does not: it is nn50 * 100 / n).
C5_TwoOrderInvariant ==
    (pc = "returned" /\ operation \in {"sdnn", "hrMaxMin"} /\ data # <<>>)
        => \A p \in Reorderings(data) : Apply(operation, p) = ret

\* hrMaxMin returned on three samples or more that are not all equal
C5_Witness ==
    /\ pc = "returned"
    /\ operation = "hrMaxMin"
    /\ Len(data) >= 3
    /\ data[1] < data[2]
    /\ data[3] < data[2]
    /\ ret.err = "none"
    /\ ret.val # Zero

\* C7: each reducer, given an empty sequence, raises InvalidInput and
\* returns no default value.
C7_EmptyRaisesInvalidInput ==
    (pc = "returned" /\ data = <<>>) => ret.err = "InvalidInput"

=============================================================================
